---- MODULE Spec2Model ----
(***************************************************************************)
(* TruthGuard engagement statistics: the community_posts, post_comments,   *)
(* deepfake_scans and user_profiles tables with their triggers, foreign    *)
(* keys and row level security policies, and the client handlers of the    *)
(* community screen and of lib/statistics.ts that write to them.           *)
(*                                                                         *)
(* One storage request (a supabase insert/update/delete/upsert together    *)
(* with the triggers and cascades it fires) is one atomic step.  A client  *)
(* handler that awaits several requests is several steps.  fetchPosts is   *)
(* started without await by the handlers and by pull-to-refresh, so its    *)
(* completion is a step of its own.                                        *)
(***************************************************************************)
EXTENDS Integers, Sequences, FiniteSets, TLC

\* ---------------------------------------------------------------- bounds
MaxPosts == 2
MaxFeedPosts == 1
MaxComments == 2
MaxScans == 2
MaxDrift == 1

\* ------------------------------------------------------------ identities
ADMIN_EMAIL == "admin"
Users == {ADMIN_EMAIL, "u1"}
Sessions == {"s1", "s2"}

\* ---------------------------------------------------------------- helpers
EmptyFn == [x \in {} |-> 0]

Range(f) == {f[i] : i \in DOMAIN f}

GREATEST(a, b) == IF a >= b THEN a ELSE b

RECURSIVE SumOver(_, _)
SumOver(S, f) ==
  IF S = {} THEN 0
  ELSE LET x == CHOOSE y \in S : TRUE IN f[x] + SumOver(S \ {x}, f)

VARIABLES
  posts,        \* community_posts: id -> [user_email, likes, liked_by]
  comments,     \* post_comments: set of [id, post_id, user_email]
  scans,        \* deepfake_scans in insertion order:
                \* <<[user_email, risk_score, created_at]>>
  profiles,     \* user_profiles: email -> the three counter columns
  nextPost,     \* number of post ids handed out so far, plus one
  nextComment,  \* number of comment ids handed out so far, plus one
  view,         \* per session: the `posts` React state (last fetchPosts)
  user,         \* per session: the signed-in email (useAuth); s1 is the
                \* admin, or the user of s2 on a second device
  pc,           \* per session: position inside handleDeletePost
  last,         \* the step just taken: handler, session, outcome
  screen,       \* per session: the deepfake screen (analyzing, result, alert)
  statistics,   \* per session: the counters last read for the profile screen
  recalc,       \* recalculate_user_likes in progress: parameter, total_likes
  history,      \* what the last getUserScanHistory returned, and to whom
  layout        \* per session: ProtectedLayout (useAuth, segments, render)

vars == <<posts, comments, scans, profiles, nextPost, nextComment, view, user, pc, last,
         screen, statistics, recalc, history, layout>>

\* the state outside the community screen
aux == <<screen, statistics, recalc, history, layout>>

SessionUser(s) == user[s]

isAdmin(s) == SessionUser(s) = ADMIN_EMAIL

db == <<posts, comments, scans, profiles>>

\* ------------------------------------------------------------- the tables
NewProfile == [deepfake_scans_count |-> 0, posts_count |-> 0, total_likes_received |-> 0]

\* what a row and its author's like total were before a step
NoOld == [likes |-> 0, liked_by |-> <<>>, total |-> 0]

NoStep ==
  [op |-> "none", s |-> "", post |-> 0, ok |-> TRUE, hit |-> FALSE,
   removed |-> 0, old |-> NoOld]

Idle == [at |-> "idle", post |-> 0, removed |-> 0]

\* DeepfakeScreen: analyzing false, result null, no 'Analysis Failed' alert
NoAnalysis == [at |-> "idle", analyzing |-> FALSE, result |-> "null", failed |-> FALSE]

\* ProtectedLayout as the app starts: the auth context is loading and has
\* no user, the route is inside the (protected) group, nothing is rendered
\* yet and the first render is due
NoLayout ==
  [loading |-> TRUE, user |-> FALSE, inProtectedGroup |-> TRUE,
   rendered |-> "none", render |-> TRUE, effect |-> FALSE, redirected |-> FALSE]

\* no getUserScanHistory has returned yet
NoHistory == [s |-> "", userEmail |-> "", rows |-> <<>>]

\* the statistics a profile screen starts with, and getUserStatistics' fallback
NoStatistics == [deepfakeScans |-> 0, postsCount |-> 0, totalLikes |-> 0]

\* no recalculate_user_likes call so far.  at: "update" between the
\* function's SELECT and its UPDATE; returned: the value the last completed
\* call returned; twice: the call follows a completed call with the same
\* parameter with no step in between
NoRecalc ==
  [at |-> "idle", user_email_param |-> "", total_likes |-> 0, returned |-> 0,
   twice |-> FALSE]

\* the record of the handler that has just completed: its session and
\* post, whether it ended without error (ok), whether its request matched a
\* row (hit), how many comments the handler's own requests removed, and the
\* row as it was before.  Any later request or refresh clears it.
Step(op, s, p, ok, removed) ==
  [op |-> op, s |-> s, post |-> p, ok |-> ok, hit |-> FALSE,
   removed |-> removed, old |-> NoOld]

Init ==
  /\ posts = EmptyFn
  /\ comments = {}
  /\ scans = <<>>
  /\ profiles = EmptyFn
  /\ nextPost = 1
  /\ nextComment = 1
  /\ view = [s \in Sessions |-> EmptyFn]
  /\ user \in {f \in [Sessions -> Users] : f["s2"] = "u1"}
  /\ pc = [s \in Sessions |-> Idle]
  /\ last = NoStep
  /\ screen = [s \in Sessions |-> NoAnalysis]
  /\ statistics = [s \in Sessions |-> NoStatistics]
  /\ recalc = NoRecalc
  /\ history = NoHistory
  /\ layout = [s \in Sessions |-> NoLayout]

\* ------------------------------------------------- reading user_profiles
\* getUserStatistics: the three counters of a row, zeros without a row
scanCount(prof, email) ==
  IF email \in DOMAIN prof THEN prof[email].deepfake_scans_count ELSE 0

postCount(prof, email) ==
  IF email \in DOMAIN prof THEN prof[email].posts_count ELSE 0

totalLikes(prof, email) ==
  IF email \in DOMAIN prof THEN prof[email].total_likes_received ELSE 0

\* ------------------------------------------------------ database triggers
\* variant: the scan table has no trigger
update_deepfake_scan_count_none(prof, email) == prof

\* variant: the conflict branch stores the inserted value 1 instead of
\* adding to the stored count
update_deepfake_scan_count_overwrite(prof, email) ==
  IF email \in DOMAIN prof
  THEN [prof EXCEPT ![email].deepfake_scans_count = 1]
  ELSE prof @@ (email :> [NewProfile EXCEPT !.deepfake_scans_count = 1])

\* AFTER INSERT ON deepfake_scans: upsert the owner's row, scan count + 1
update_deepfake_scan_count(prof, email) ==
  IF email \in DOMAIN prof
  THEN [prof EXCEPT ![email].deepfake_scans_count = @ + 1]
  ELSE prof @@ (email :> [NewProfile EXCEPT !.deepfake_scans_count = 1])

\* variant: the conflict branch stores the inserted value 1 instead of
\* adding to the stored count
update_post_count_overwrite(prof, email) ==
  IF email \in DOMAIN prof
  THEN [prof EXCEPT ![email].posts_count = 1]
  ELSE prof @@ (email :> [NewProfile EXCEPT !.posts_count = 1])

\* AFTER INSERT ON community_posts: upsert the author's row, post count + 1
update_post_count(prof, email) ==
  IF email \in DOMAIN prof
  THEN [prof EXCEPT ![email].posts_count = @ + 1]
  ELSE prof @@ (email :> [NewProfile EXCEPT !.posts_count = 1])

\* variant: the delete trigger updates the row of no user
update_post_count_on_delete_skip(prof, old) == prof

\* variant: the delete trigger removes the row of an author left with no post
update_post_count_on_delete_droprow(prof, old) ==
  IF old.user_email \in DOMAIN prof
  THEN IF prof[old.user_email].posts_count <= 1
       THEN [u \in DOMAIN prof \ {old.user_email} |-> prof[u]]
       ELSE [prof EXCEPT ![old.user_email].posts_count = @ - 1]
  ELSE prof

\* AFTER DELETE ON community_posts: post count - 1, floored at 0; the
\* function touches no other column
update_post_count_on_delete(prof, old) ==
  IF old.user_email \in DOMAIN prof
  THEN [prof EXCEPT ![old.user_email].posts_count = GREATEST(@ - 1, 0)]
  ELSE prof

\* variant: the trigger's UPDATE has no WHERE clause
update_total_likes_all(prof, old, new) ==
  IF old.likes # new.likes
  THEN [u \in DOMAIN prof |->
          [prof[u] EXCEPT !.total_likes_received = @ + (new.likes - old.likes)]]
  ELSE prof

\* AFTER UPDATE OF likes ON community_posts
\* WHEN (OLD.likes IS DISTINCT FROM NEW.likes)
update_total_likes(prof, old, new) ==
  IF old.likes # new.likes /\ new.user_email \in DOMAIN prof
  THEN [prof EXCEPT ![new.user_email].total_likes_received =
                       @ + (new.likes - old.likes)]
  ELSE prof

\* ------------------------------------------------- row level security, FK
\* policy "Users can delete own posts": USING (auth.email() = user_email)
CanDeletePost(email, row) == email = row.user_email

\* policy "Users can delete own comments": USING (auth.email() = user_email)
CanDeleteComment(email, c) == email = c.user_email

\* variant: the insert policy lets every row through
CanInsertScan_any(email, row) == TRUE

\* policy "Users can insert own scans": WITH CHECK (auth.email() = user_email)
CanInsertScan(email, row) == email = row.user_email

\* variant: the select policy shows every row
CanViewScan_any(email, row) == TRUE

\* policy "Users can view own scans": USING (auth.email() = user_email)
CanViewScan(email, row) == email = row.user_email

\* variant: post_comments.post_id has no foreign key
post_id_fkey_none(ps, p) == TRUE

\* post_comments.post_id REFERENCES community_posts(id): an insert is
\* accepted only for an existing post
post_id_fkey(ps, p) == p \in DOMAIN ps

\* post_comments.post_id REFERENCES community_posts(id) ON DELETE CASCADE
CascadeComments(cs, p) == {c \in cs : c.post_id # p}

\* ------------------------------------------------------- client handlers
\* variant: the delete button is rendered for every user
canDelete_always(s, email) == TRUE

\* the delete buttons of the community screen are rendered on
\* (row.user_email === user?.email || isAdmin)
canDelete(s, email) == email = SessionUser(s) \/ isAdmin(s)

\* fetchPosts: select * from community_posts; setPosts(...)
fetchPosts(s) ==
  /\ view' = [view EXCEPT ![s] = posts]
  /\ last' = NoStep
  /\ UNCHANGED <<db, nextPost, nextComment, user, pc, aux>>

\* handleCreatePost, the early return on an empty submission
handleCreatePostEmpty(s) ==
  /\ UNCHANGED vars

\* handleCreatePost: uploadToCloudinary throws, or the insert returns an
\* error: caught, alerted, nothing stored
handleCreatePostFail(s) ==
  /\ UNCHANGED vars

\* maxLength={500} of the post input, maxLength={300} of the comment input
postInput_maxLength == 500

commentInput_maxLength == 300

\* a text is told by its length len and by how many of its last characters,
\* pad, are white space
ShortText == [len |-> 1, pad |-> 0]

\* what a user may try to enter into an input of maxLength n
Typed(n) ==
  {t \in [len : {0, 1, n, n + 1}, pad : {0, 1}] : t.pad <= t.len}

\* variant: the input takes any number of characters
maxLength_none(text, n) == text

\* TextInput maxLength: the input holds at most n characters, the first n
\* of what is entered
maxLength(text, n) ==
  IF text.len <= n THEN text
  ELSE [len |-> n, pad |-> GREATEST(text.pad - (text.len - n), 0)]

\* the length of text.trim()
trim(text) == text.len - text.pad

\* variant: the text is tested without trim()
isEmptyPost_untrimmed(newPost, selectedImage) ==
  newPost.len = 0 /\ ~selectedImage

\* if (!newPost.trim() && !selectedImage)
isEmptyPost(newPost, selectedImage) ==
  trim(newPost) = 0 /\ ~selectedImage

\* if (!newComment.trim() || !selectedPostId); a selectedPostId of 0 is null
isEmptyComment(newComment, selectedPostId) ==
  trim(newComment) = 0 \/ selectedPostId = 0

\* handleCreatePost, the early return on an empty submission: 'Please write
\* something or add an image'
handleCreatePostEmptyText(s, typed, selectedImage) ==
  /\ isEmptyPost(maxLength(typed, postInput_maxLength), selectedImage)
  /\ last' = Step("handleCreatePostEmpty", s, 0, FALSE, 0)
  /\ UNCHANGED <<db, nextPost, nextComment, view, user, pc, aux>>

\* handleAddComment, the early return on an empty submission, without alert
handleAddCommentEmpty(s, selectedPostId, typed) ==
  /\ selectedPostId \in 0..(nextPost - 1)
  /\ isEmptyComment(maxLength(typed, commentInput_maxLength), selectedPostId)
  /\ last' = Step("handleAddCommentEmpty", s, selectedPostId, TRUE, 0)
  /\ UNCHANGED <<db, nextPost, nextComment, view, user, pc, aux>>

\* handleCreatePost with newPost as the post input holds it and with or
\* without selectedImage: the insert of newPost.trim() commits, with
\* trigger_update_post_count
handleCreatePostText(s, typed, selectedImage) ==
  LET newPost == maxLength(typed, postInput_maxLength)
  IN /\ nextPost <= MaxPosts
     /\ ~isEmptyPost(newPost, selectedImage)
     /\ posts' = posts @@ (nextPost :>
          [user_email |-> SessionUser(s), content |-> trim(newPost),
           image_url |-> selectedImage, likes |-> 0, liked_by |-> <<>>])
     /\ profiles' = update_post_count(profiles, SessionUser(s))
     /\ nextPost' = nextPost + 1
     /\ last' = NoStep
     /\ UNCHANGED <<comments, scans, nextComment, view, user, pc, aux>>

\* handleCreatePost where the text plays no part: one short text, no image
handleCreatePost(s) == handleCreatePostText(s, ShortText, FALSE)

\* variant: the client appends without looking at hasLiked
newLikedBy_append(post, email) == Append(post.liked_by, email)

\* handleLike: the liked_by array the client writes back
newLikedBy(post, email) ==
  IF email \in Range(post.liked_by)
  THEN SelectSeq(post.liked_by, LAMBDA e : e # email)
  ELSE Append(post.liked_by, email)

\* variant: the client adds one to likes whatever hasLiked says
newLikes_increment(post, email) == post.likes + 1

\* handleLike: the likes number the client writes back
newLikes(post, email) ==
  IF email \in Range(post.liked_by) THEN post.likes - 1 ELSE post.likes + 1

\* handleLike(post), post taken from the client's copy: one UPDATE ... WHERE
\* id = post.id of both columns, with trigger_update_total_likes.  An id
\* that matches no row updates nothing and returns no error.
handleLike(s, p) ==
  /\ p \in DOMAIN view[s]
  /\ LET post == view[s][p]
         new == [posts[p] EXCEPT !.likes = newLikes(post, SessionUser(s)),
                                 !.liked_by = newLikedBy(post, SessionUser(s))]
     IN IF p \in DOMAIN posts
        THEN /\ posts' = [posts EXCEPT ![p] = new]
             /\ profiles' = update_total_likes(profiles, posts[p], new)
             /\ last' = [Step("handleLike", s, p, TRUE, 0) EXCEPT
                           !.hit = TRUE,
                           !.old = [likes |-> posts[p].likes,
                                    liked_by |-> posts[p].liked_by,
                                    total |-> totalLikes(profiles, posts[p].user_email)]]
        ELSE /\ UNCHANGED <<posts, profiles>>
             /\ last' = Step("handleLike", s, p, TRUE, 0)
  /\ UNCHANGED <<comments, scans, nextPost, nextComment, view, user, pc, aux>>

\* handleLike: the update returns an error: logged, nothing stored
handleLikeFail(s, p) ==
  /\ p \in DOMAIN view[s]
  /\ UNCHANGED vars

\* handleDeletePost, first request: delete from post_comments where
\* post_id = postId.  The policy lets through the requester's own comments
\* only; the result of the request is not looked at.
handleDeletePostComments(s, p, ok) ==
  /\ pc[s].at = "idle"
  /\ p \in DOMAIN view[s]
  /\ canDelete(s, view[s][p].user_email)
  /\ LET gone == IF ok
                 THEN {c \in comments : c.post_id = p /\ CanDeleteComment(SessionUser(s), c)}
                 ELSE {}
     IN /\ comments' = comments \ gone
        /\ pc' = [pc EXCEPT ![s] = [at |-> "deletePost", post |-> p,
                                    removed |-> Cardinality(gone)]]
        /\ last' = NoStep
  /\ UNCHANGED <<posts, scans, profiles, nextPost, nextComment, view, user, aux>>

\* handleDeletePost, second request: delete from community_posts where
\* id = postId.  The policy lets through the requester's own post only; a
\* request that deletes no row returns no error.  The row's deletion fires
\* the cascade and trigger_update_post_count_on_delete.
handleDeletePost(s) ==
  /\ pc[s].at = "deletePost"
  /\ LET p == pc[s].post
     IN /\ IF p \in DOMAIN posts /\ CanDeletePost(SessionUser(s), posts[p])
           THEN /\ posts' = [q \in DOMAIN posts \ {p} |-> posts[q]]
                /\ comments' = CascadeComments(comments, p)
                /\ profiles' = update_post_count_on_delete(profiles, posts[p])
                /\ last' = [Step("handleDeletePost", s, p, TRUE, pc[s].removed) EXCEPT
                              !.hit = TRUE]
           ELSE /\ UNCHANGED <<posts, comments, profiles>>
                /\ last' = Step("handleDeletePost", s, p, TRUE, pc[s].removed)
  /\ pc' = [pc EXCEPT ![s] = Idle]
  /\ UNCHANGED <<scans, nextPost, nextComment, view, user, aux>>

\* handleDeletePost, second request returns an error: 'Failed to delete post'
handleDeletePostFail(s) ==
  /\ pc[s].at = "deletePost"
  /\ last' = Step("handleDeletePost", s, pc[s].post, FALSE, pc[s].removed)
  /\ pc' = [pc EXCEPT ![s] = Idle]
  /\ UNCHANGED <<db, nextPost, nextComment, view, user, aux>>

\* handleAddComment on selectedPostId, a post the client has opened, with
\* newComment as the comment input holds it; the insert of newComment.trim()
\* violates the foreign key when the post is gone
handleAddCommentText(s, p, typed) ==
  LET newComment == maxLength(typed, commentInput_maxLength)
  IN /\ nextComment <= MaxComments
     /\ ~isEmptyComment(newComment, p)
     /\ p \in 1..(nextPost - 1)
     /\ post_id_fkey(posts, p)
     /\ comments' = comments \cup
          {[id |-> nextComment, post_id |-> p, user_email |-> SessionUser(s),
            content |-> trim(newComment)]}
     /\ nextComment' = nextComment + 1
     /\ last' = Step("handleAddComment", s, p, TRUE, 0)
     /\ UNCHANGED <<posts, scans, profiles, nextPost, view, user, pc, aux>>

\* handleAddComment where the text plays no part: one short text
handleAddComment(s, p) == handleAddCommentText(s, p, ShortText)

\* handleAddComment: the insert returns an error (the post is gone, or the
\* request failed): 'Failed to add comment'
handleAddCommentFail(s, p) ==
  /\ p \in 1..(nextPost - 1)
  /\ last' = Step("handleAddComment", s, p, FALSE, 0)
  /\ UNCHANGED <<db, nextPost, nextComment, view, user, pc, aux>>

\* handleDeleteComment: delete from post_comments where id = commentId; the
\* button shows on the requester's own comments, and on all for the admin
handleDeleteComment(s, c) ==
  /\ c \in comments
  /\ canDelete(s, c.user_email)
  /\ comments' = IF CanDeleteComment(SessionUser(s), c) THEN comments \ {c} ELSE comments
  /\ last' = Step("handleDeleteComment", s, c.post_id, TRUE, 0)
  /\ UNCHANGED <<posts, scans, profiles, nextPost, nextComment, view, user, pc, aux>>

\* handleDeleteComment: the delete returns an error
handleDeleteCommentFail(s, c) ==
  /\ c \in comments
  /\ canDelete(s, c.user_email)
  /\ UNCHANGED vars

\* the values of DeepfakeScanData.riskScore (a number) that are told apart:
\* below, at the ends of, inside and above the range 0..100
RiskScores == {-1, 0, 50, 100, 101}

\* trackDeepfakeScan(data) at client time `now`: data.userEmail and
\* data.riskScore go into the insert as they come, created_at is the
\* client's clock; risk_score is INTEGER DEFAULT 0 with no CHECK.  The
\* insert passes the policy and commits, with
\* trigger_update_deepfake_scan_count
trackDeepfakeScanData(s, data, now) ==
  LET row == [user_email |-> data.userEmail, risk_score |-> data.riskScore,
              created_at |-> now]
  IN /\ Len(scans) < MaxScans
     /\ CanInsertScan(SessionUser(s), row)
     /\ scans' = Append(scans, row)
     /\ profiles' = update_deepfake_scan_count(profiles, row.user_email)
     /\ last' = Step("trackDeepfakeScan", s, 0, TRUE, 0)
     /\ UNCHANGED <<posts, comments, nextPost, nextComment, view, user, pc, aux>>

\* trackDeepfakeScan as analyzeMedia calls it, with user.email, where the
\* score plays no part and the clocks agree with the order of the inserts
trackDeepfakeScan(s) ==
  trackDeepfakeScanData(s, [userEmail |-> SessionUser(s), riskScore |-> 0],
                        Len(scans) + 1)

\* trackDeepfakeScan: the insert returns an error or throws: logged and
\* swallowed, nothing stored
trackDeepfakeScanFail(s) ==
  /\ UNCHANGED vars

\* variant: the upsert replaces the whole row, counters included
upsertProfileImage_replace(prof, email) ==
  [u \in DOMAIN prof \cup {email} |-> IF u = email THEN NewProfile ELSE prof[u]]

\* upsert of (email, profile_image_url, updated_at) on conflict of email; a
\* new row takes the counter columns' DEFAULT 0, an existing row keeps its
\* counters
upsertProfileImage(prof, email) ==
  IF email \in DOMAIN prof THEN prof ELSE prof @@ (email :> NewProfile)

\* uploadProfileImage: the image is uploaded and its URL upserted
uploadProfileImage(s) ==
  /\ profiles' = upsertProfileImage(profiles, SessionUser(s))
  /\ last' = Step("uploadProfileImage", s, 0, TRUE, 0)
  /\ UNCHANGED <<posts, comments, scans, nextPost, nextComment, view, user, pc, aux>>

\* uploadProfileImage: the upload throws or the upsert returns an error
uploadProfileImageFail(s) ==
  /\ UNCHANGED vars

\* ------------------------------------------------------- deepfake screen
\* variant: trackDeepfakeScan's catch block throws the error on
trackDeepfakeScanSettles_rethrow(inserted) ==
  IF inserted THEN "resolved" ELSE "rejected"

\* trackDeepfakeScan as its caller sees it: the insert's error is thrown
\* inside the try block, caught, logged and not thrown on, so the promise
\* resolves whether or not the row was inserted
trackDeepfakeScanSettles(inserted) == "resolved"

\* variant: setAnalyzing(false) is the last statement of the try block
analyzeMediaEnds_noFinally(s, settled) ==
  screen' = [screen EXCEPT ![s] = [at |-> "idle", analyzing |-> settled = "rejected",
                                   result |-> @.result,
                                   failed |-> settled = "rejected"]]

\* analyzeMedia after its awaits: a rejected await reaches the catch block
\* ('Analysis Failed'); finally sets analyzing to false
analyzeMediaEnds(s, settled) ==
  screen' = [screen EXCEPT ![s] = [at |-> "idle", analyzing |-> FALSE,
                                   result |-> @.result,
                                   failed |-> settled = "rejected"]]

\* analyzeMedia, the early return without selected media: 'No Media'
analyzeMediaNoMedia(s) ==
  /\ screen[s].at = "idle"
  /\ UNCHANGED vars

\* analyzeMedia: setAnalyzing(true), detectDeepfake is started; the button
\* shows loading until analyzing is false again
analyzeMedia(s) ==
  /\ screen[s].at = "idle"
  /\ screen' = [screen EXCEPT ![s] = [at |-> "detect", analyzing |-> TRUE,
                                      result |-> @.result, failed |-> FALSE]]
  /\ last' = NoStep
  /\ UNCHANGED <<db, nextPost, nextComment, view, user, pc, statistics, recalc, history, layout>>

\* variant: trackDeepfakeScan is called whether or not user?.email is there
shouldTrack_always(email) == TRUE

\* if (user?.email): the scan is tracked for a signed-in user only
shouldTrack(email) == email

\* analyzeMedia: detectDeepfake resolves, setResult(detectionResult); with
\* user?.email there, trackDeepfakeScan is called and awaited, without it
\* the try block ends and finally sets analyzing to false
analyzeMediaDetected(s, email) ==
  /\ screen[s].at = "detect"
  /\ IF shouldTrack(email)
     THEN /\ screen' = [screen EXCEPT ![s].at = "track", ![s].result = "set"]
          /\ last' = NoStep
     ELSE /\ screen' = [screen EXCEPT ![s] = [at |-> "idle", analyzing |-> FALSE,
                                              result |-> "set", failed |-> FALSE]]
          /\ last' = Step("analyzeMediaDetected", s, 0, TRUE, 0)
  /\ UNCHANGED <<db, nextPost, nextComment, view, user, pc, statistics, recalc, history, layout>>

\* analyzeMedia: detectDeepfake rejects: 'Analysis Failed', nothing tracked
analyzeMediaDetectFail(s) ==
  /\ screen[s].at = "detect"
  /\ analyzeMediaEnds(s, "rejected")
  /\ last' = NoStep
  /\ UNCHANGED <<db, nextPost, nextComment, view, user, pc, statistics, recalc, history, layout>>

\* analyzeMedia: the insert of trackDeepfakeScan commits, with
\* trigger_update_deepfake_scan_count
analyzeMediaTrack(s) ==
  /\ screen[s].at = "track"
  /\ Len(scans) < MaxScans
  /\ scans' = Append(scans, [user_email |-> SessionUser(s), risk_score |-> 0,
                             created_at |-> Len(scans) + 1])
  /\ profiles' = update_deepfake_scan_count(profiles, SessionUser(s))
  /\ analyzeMediaEnds(s, trackDeepfakeScanSettles(TRUE))
  /\ last' = Step("analyzeMedia", s, 0, TRUE, 0)
  /\ UNCHANGED <<posts, comments, nextPost, nextComment, view, user, pc, statistics, recalc, history, layout>>

\* analyzeMedia: the insert of trackDeepfakeScan returns an error or throws
analyzeMediaTrackFail(s) ==
  /\ screen[s].at = "track"
  /\ analyzeMediaEnds(s, trackDeepfakeScanSettles(FALSE))
  /\ last' = Step("analyzeMedia", s, 0, FALSE, 0)
  /\ UNCHANGED <<db, nextPost, nextComment, view, user, pc, statistics, recalc, history, layout>>

\* -------------------------------------------------------- profile screen
\* variant: the counters of an existing row are returned although the read
\* ended in an error
getUserStatisticsResult_noCatch(prof, email, readOk) ==
  IF email \in DOMAIN prof
  THEN [deepfakeScans |-> prof[email].deepfake_scans_count,
        postsCount |-> prof[email].posts_count,
        totalLikes |-> prof[email].total_likes_received]
  ELSE NoStatistics

\* getUserStatistics: select the three counters .eq('email', userEmail)
\* .single(); an error (the request failed, or single() found no row) is
\* thrown, caught and answered with zeros
getUserStatisticsResult(prof, email, readOk) ==
  IF readOk /\ email \in DOMAIN prof
  THEN [deepfakeScans |-> prof[email].deepfake_scans_count,
        postsCount |-> prof[email].posts_count,
        totalLikes |-> prof[email].total_likes_received]
  ELSE NoStatistics

\* the profile screen of session s reads the statistics of its user
getUserStatistics(s, readOk) ==
  /\ statistics' = [statistics EXCEPT ![s] =
                      getUserStatisticsResult(profiles, SessionUser(s), readOk)]
  /\ last' = Step("getUserStatistics", s, 0, readOk, 0)
  /\ UNCHANGED <<db, nextPost, nextComment, view, user, pc, screen, recalc, history, layout>>

\* ------------------------------------------------------- scan history
\* getUserScanHistory(userEmail, limit = 10)
DefaultLimit == 10

Min(a, b) == IF a <= b THEN a ELSE b

\* .eq('user_email', userEmail), on the rows the select policy shows
eq_user_email(sc, email, userEmail) ==
  {i \in DOMAIN sc : CanViewScan(email, sc[i]) /\ sc[i].user_email = userEmail}

\* .order('created_at', { ascending: false }): the rows I of sc in every
\* order that has no later created_at after an earlier one
order_created_at(sc, I) ==
  {[k \in 1..Cardinality(I) |-> sc[f[k]]] :
     f \in {g \in [1..Cardinality(I) -> I] :
              \A k, l \in 1..Cardinality(I) :
                k < l => g[k] # g[l] /\ sc[g[k]].created_at >= sc[g[l]].created_at}}

\* variant: the query has no limit
limit_none(rows, count) == rows

\* .limit(limit)
limit(rows, count) == SubSeq(rows, 1, Min(count, Len(rows)))

\* what getUserScanHistory may return: data || [], and [] from the catch
\* block when the read returns an error
getUserScanHistoryResult(sc, email, userEmail, count, readOk) ==
  IF readOk
  THEN {limit(rows, count) :
          rows \in order_created_at(sc, eq_user_email(sc, email, userEmail))}
  ELSE {<<>>}

\* session s calls getUserScanHistory(userEmail, limit)
getUserScanHistory(s, userEmail, count, readOk) ==
  /\ \E rows \in getUserScanHistoryResult(scans, SessionUser(s), userEmail, count, readOk) :
       history' = [s |-> s, userEmail |-> userEmail, rows |-> rows]
  /\ last' = Step("getUserScanHistory", s, 0, readOk, 0)
  /\ UNCHANGED <<db, nextPost, nextComment, view, user, pc, screen, statistics, recalc,
               layout>>

\* ---------------------------------------------------- protected layout
\* variant: the effect does not return while loading
shouldRedirect_whileLoading(l) == ~l.user /\ l.inProtectedGroup

\* the effect: if (loading) return; if (!user && inProtectedGroup) redirect
shouldRedirect(l) == ~l.loading /\ ~l.user /\ l.inProtectedGroup

\* the auth context finishes loading, with or without a user.  A change of
\* a hook's value is taken up after the effects of the last render have
\* run, and schedules a render
authLoaded(s, signedIn) ==
  /\ layout[s].loading /\ ~layout[s].effect
  /\ layout' = [layout EXCEPT ![s].loading = FALSE, ![s].user = signedIn,
                              ![s].render = TRUE]
  /\ UNCHANGED <<db, nextPost, nextComment, view, user, pc, last, screen, statistics,
                 recalc, history>>

\* the user signs out on a protected screen
signOut(s) ==
  /\ ~layout[s].loading /\ layout[s].user /\ ~layout[s].effect
  /\ layout[s].inProtectedGroup
  /\ layout' = [layout EXCEPT ![s].user = FALSE, ![s].render = TRUE]
  /\ UNCHANGED <<db, nextPost, nextComment, view, user, pc, last, screen, statistics,
                 recalc, history>>

\* on /auth/login: the user signs in or not, and a route of the (protected)
\* group is opened, which mounts the layout
openProtected(s, signedIn) ==
  /\ ~layout[s].loading /\ ~layout[s].inProtectedGroup
  /\ layout' = [layout EXCEPT ![s] = [loading |-> FALSE, user |-> signedIn,
                                      inProtectedGroup |-> TRUE, rendered |-> "none",
                                      render |-> TRUE, effect |-> FALSE,
                                      redirected |-> FALSE]]
  /\ UNCHANGED <<db, nextPost, nextComment, view, user, pc, last, screen, statistics,
                 recalc, history>>

\* ProtectedLayout renders: the ActivityIndicator while loading, the Tabs
\* otherwise; the effect, whose dependencies have changed, is scheduled
ProtectedLayout(s) ==
  /\ layout[s].render /\ layout[s].inProtectedGroup
  /\ layout' = [layout EXCEPT ![s].rendered = IF layout[s].loading THEN "loader" ELSE "tabs",
                              ![s].render = FALSE, ![s].effect = TRUE]
  /\ UNCHANGED <<db, nextPost, nextComment, view, user, pc, last, screen, statistics,
                 recalc, history>>

\* the effect of the last render runs: router.replace('/auth/login') leaves
\* the (protected) group, which unmounts the layout
useEffect(s) ==
  /\ layout[s].effect
  /\ layout' = IF shouldRedirect(layout[s])
               THEN [layout EXCEPT ![s].effect = FALSE, ![s].redirected = TRUE,
                                   ![s].inProtectedGroup = FALSE,
                                   ![s].rendered = "none"]
               ELSE [layout EXCEPT ![s].effect = FALSE]
  /\ UNCHANGED <<db, nextPost, nextComment, view, user, pc, last, screen, statistics,
                 recalc, history>>

\* ---------------------------------------------------- database functions
\* recalculate_user_likes: SELECT COALESCE(SUM(likes), 0) INTO total_likes
\* FROM community_posts WHERE user_email = user_email_param
sum_likes(ps, email) ==
  LET mine == {p \in DOMAIN ps : ps[p].user_email = email}
  IN SumOver(mine, [p \in mine |-> ps[p].likes])

\* variant: the UPDATE adds the sum to the stored total
set_total_likes_add(prof, email, total) ==
  IF email \in DOMAIN prof
  THEN [prof EXCEPT ![email].total_likes_received = @ + total]
  ELSE prof

\* recalculate_user_likes: UPDATE user_profiles SET total_likes_received =
\* total_likes WHERE email = user_email_param; no row, no change
set_total_likes(prof, email, total) ==
  IF email \in DOMAIN prof
  THEN [prof EXCEPT ![email].total_likes_received = total]
  ELSE prof

\* the DO block's UPDATE user_profiles SET posts_count = (SELECT COUNT(*)
\* FROM community_posts WHERE user_email = ...) WHERE email = ...
set_posts_count(prof, ps, email) ==
  IF email \in DOMAIN prof
  THEN [prof EXCEPT ![email].posts_count =
          Cardinality({p \in DOMAIN ps : ps[p].user_email = email})]
  ELSE prof

\* the DO block's loop over SELECT DISTINCT user_email FROM community_posts
RECURSIVE initialize_statistics(_, _, _)
initialize_statistics(prof, ps, authors) ==
  IF authors = {} THEN prof
  ELSE LET a == CHOOSE x \in authors : TRUE
           likes == set_total_likes(prof, a, sum_likes(ps, a))
       IN initialize_statistics(set_posts_count(likes, ps, a), ps, authors \ {a})

\* recalculate_user_likes(user_email_param), its SELECT.  The function runs
\* its two statements at READ COMMITTED without a lock, so other
\* transactions can commit between them.
recalculate_user_likes_select(email) ==
  /\ recalc.at = "idle"
  /\ recalc' = [at |-> "update", user_email_param |-> email,
                total_likes |-> sum_likes(posts, email),
                returned |-> recalc.returned,
                twice |-> (last.op = "recalculate_user_likes"
                           /\ recalc.user_email_param = email)]
  /\ last' = Step("recalculate_user_likes_select", "", 0, TRUE, 0)
  /\ UNCHANGED <<db, nextPost, nextComment, view, user, pc, screen, statistics, history, layout>>

\* recalculate_user_likes, its UPDATE and RETURN total_likes
recalculate_user_likes ==
  /\ recalc.at = "update"
  /\ profiles' = set_total_likes(profiles, recalc.user_email_param, recalc.total_likes)
  /\ recalc' = [recalc EXCEPT !.at = "idle", !.returned = recalc.total_likes]
  /\ last' = Step("recalculate_user_likes", "", 0, TRUE, 0)
  /\ UNCHANGED <<posts, comments, scans, nextPost, nextComment, view, user, pc,
                 screen, statistics, history, layout>>

\* the migration's DO block 'Initialize statistics for existing users', run
\* with no other transaction in between
InitializeStatistics ==
  /\ recalc.at = "idle"
  /\ profiles' = initialize_statistics(profiles, posts,
                                       {posts[p].user_email : p \in DOMAIN posts})
  /\ last' = Step("InitializeStatistics", "", 0, TRUE, 0)
  /\ UNCHANGED <<posts, comments, scans, nextPost, nextComment, view, user, pc, aux>>

\* ------------------------------------------------------- specifications
\* the handlers that write community_posts
PostSteps(s) ==
  \/ fetchPosts(s)
  \/ handleCreatePostEmpty(s)
  \/ handleCreatePostFail(s)
  \/ \E p \in 1..MaxPosts, ok \in BOOLEAN : handleDeletePostComments(s, p, ok)
  \/ handleDeletePost(s)
  \/ handleDeletePostFail(s)

LikeSteps(s) ==
  \/ \E p \in 1..MaxPosts : handleLike(s, p)
  \/ \E p \in 1..MaxPosts : handleLikeFail(s, p)

CommentSteps(s) ==
  \/ \E p \in 1..MaxPosts : handleAddComment(s, p)
  \/ \E p \in 1..MaxPosts : handleAddCommentFail(s, p)
  \/ \E c \in comments : handleDeleteComment(s, c)
  \/ \E c \in comments : handleDeleteCommentFail(s, c)

ProfileSteps(s) ==
  \/ trackDeepfakeScan(s)
  \/ trackDeepfakeScanFail(s)
  \/ uploadProfileImage(s)
  \/ uploadProfileImageFail(s)

\* posts and likes, with at most MaxFeedPosts posts ever created
NextLikes ==
  \E s \in Sessions :
    \/ nextPost <= MaxFeedPosts /\ handleCreatePost(s)
    \/ PostSteps(s)
    \/ LikeSteps(s)

SpecLikes == Init /\ [][NextLikes]_vars

\* posts and likes without deletions: what the like toggles alone can reach
NextToggles ==
  \E s \in Sessions :
    \/ nextPost <= MaxFeedPosts /\ handleCreatePost(s)
    \/ fetchPosts(s)
    \/ LikeSteps(s)

SpecToggles == Init /\ [][NextToggles]_vars

\* posts and comments, with at most MaxFeedPosts posts ever created
NextComments ==
  \E s \in Sessions :
    \/ nextPost <= MaxFeedPosts /\ handleCreatePost(s)
    \/ PostSteps(s)
    \/ CommentSteps(s)

SpecComments == Init /\ [][NextComments]_vars

\* posts, scans and profile rows
NextCounters ==
  \E s \in Sessions : handleCreatePost(s) \/ PostSteps(s) \/ ProfileSteps(s)

SpecCounters == Init /\ [][NextCounters]_vars

\* the deepfake screen of each session
NextScans ==
  \E s \in Sessions :
    \/ analyzeMediaNoMedia(s)
    \/ analyzeMedia(s)
    \/ \E email \in BOOLEAN : analyzeMediaDetected(s, email)
    \/ analyzeMediaDetectFail(s)
    \/ analyzeMediaTrack(s)
    \/ analyzeMediaTrackFail(s)

SpecScans == Init /\ [][NextScans]_vars

\* every await of analyzeMedia settles: detectDeepfake resolves or rejects,
\* and so does the insert of trackDeepfakeScan
SpecScansFair ==
  /\ SpecScans
  /\ \A s \in Sessions :
       /\ WF_vars(analyzeMediaDetectFail(s)
                    \/ \E email \in BOOLEAN : analyzeMediaDetected(s, email))
       /\ WF_vars(analyzeMediaTrack(s) \/ analyzeMediaTrackFail(s))

\* scans, posts and profile rows, and the profile screen reading them
NextStatistics ==
  \E s \in Sessions :
    \/ handleCreatePost(s)
    \/ handleCreatePostFail(s)
    \/ trackDeepfakeScan(s)
    \/ trackDeepfakeScanFail(s)
    \/ uploadProfileImage(s)
    \/ \E readOk \in BOOLEAN : getUserStatistics(s, readOk)

SpecStatistics == Init /\ [][NextStatistics]_vars

\* posts, likes, deletions and scans together
NextFrame ==
  \E s \in Sessions :
    \/ nextPost <= MaxFeedPosts /\ handleCreatePost(s)
    \/ fetchPosts(s)
    \/ \E p \in 1..MaxPosts : handleLike(s, p)
    \/ \E p \in 1..MaxPosts : handleDeletePostComments(s, p, TRUE)
    \/ handleDeletePost(s)
    \/ trackDeepfakeScan(s)

SpecFrame == Init /\ [][NextFrame]_vars

\* posts and comments of any text, with at most MaxFeedPosts posts
NextContent ==
  \E s \in Sessions :
    \/ /\ nextPost <= MaxFeedPosts
       /\ \E typed \in Typed(postInput_maxLength), selectedImage \in BOOLEAN :
            handleCreatePostText(s, typed, selectedImage)
    \/ handleCreatePostEmpty(s)
    \/ handleCreatePostFail(s)
    \/ \E p \in 1..MaxPosts, typed \in Typed(commentInput_maxLength) :
         handleAddCommentText(s, p, typed)
    \/ \E p \in 1..MaxPosts : handleAddCommentFail(s, p)

SpecContent == Init /\ [][NextContent]_vars

\* what is submitted in an input: nothing, white space, a character
Drafts == {[len |-> 0, pad |-> 0], [len |-> 1, pad |-> 1], ShortText}

\* posts and comments submitted empty or not, with at most MaxFeedPosts posts
NextEmpty ==
  \E s \in Sessions :
    \/ /\ nextPost <= MaxFeedPosts
       /\ \E typed \in Drafts, selectedImage \in BOOLEAN :
            handleCreatePostText(s, typed, selectedImage)
    \/ \E typed \in Drafts, selectedImage \in BOOLEAN :
         handleCreatePostEmptyText(s, typed, selectedImage)
    \/ \E p \in 1..MaxPosts, typed \in Drafts : handleAddCommentText(s, p, typed)
    \/ \E p \in 0..MaxPosts, typed \in Drafts : handleAddCommentEmpty(s, p, typed)

SpecEmpty == Init /\ [][NextEmpty]_vars

\* the limits asked for: one row, and the default
Limits == {1, DefaultLimit}

\* the client clocks: they need not agree with the order of the inserts
Clock == 1..MaxScans

\* scans tracked under any email and clock, and the scan history read
NextHistory ==
  \E s \in Sessions :
    \/ \E userEmail \in Users, now \in Clock :
         trackDeepfakeScanData(s, [userEmail |-> userEmail, riskScore |-> 0], now)
    \/ trackDeepfakeScanFail(s)
    \/ \E userEmail \in Users, count \in Limits, readOk \in BOOLEAN :
         getUserScanHistory(s, userEmail, count, readOk)

SpecHistory == Init /\ [][NextHistory]_vars

\* the protected layout of each session
NextLayout ==
  \E s \in Sessions :
    \/ \E signedIn \in BOOLEAN : authLoaded(s, signedIn)
    \/ signOut(s)
    \/ \E signedIn \in BOOLEAN : openProtected(s, signedIn)
    \/ ProtectedLayout(s)
    \/ useEffect(s)

SpecLayout == Init /\ [][NextLayout]_vars

\* a scheduled render and a scheduled effect run
SpecLayoutFair ==
  /\ SpecLayout
  /\ \A s \in Sessions : WF_vars(ProtectedLayout(s)) /\ WF_vars(useEffect(s))

\* scans of any score, beside the profile image upload
NextRisk ==
  \E s \in Sessions :
    \/ \E riskScore \in RiskScores :
         trackDeepfakeScanData(s, [userEmail |-> SessionUser(s),
                                   riskScore |-> riskScore], Len(scans) + 1)
    \/ trackDeepfakeScanFail(s)
    \/ uploadProfileImage(s)

SpecRisk == Init /\ [][NextRisk]_vars

\* the database as the statistics migration finds it: posts written
\* before the triggers existed, and profile rows whose counters were never
\* maintained or were edited by hand
LikedByBefore == {<<>>, <<"u1">>, <<ADMIN_EMAIL, "u1">>}

PostsBefore ==
  UNION {[1..n -> {[user_email |-> u, content |-> 1, image_url |-> FALSE,
                      likes |-> Len(l), liked_by |-> l] :
                     u \in Users, l \in LikedByBefore}] : n \in 0..MaxFeedPosts}

RowsBefore ==
  {[deepfake_scans_count |-> n, posts_count |-> n, total_likes_received |-> n] :
     n \in 0..MaxDrift}

ProfilesBefore == UNION {[U -> RowsBefore] : U \in SUBSET Users}

InitDrift ==
  /\ posts \in PostsBefore
  /\ comments = {}
  /\ scans = <<>>
  /\ profiles \in ProfilesBefore
  /\ nextPost = Len(posts) + 1
  /\ nextComment = 1
  /\ view = [s \in Sessions |-> EmptyFn]
  /\ user = [s \in Sessions |-> IF s = "s1" THEN ADMIN_EMAIL ELSE "u1"]
  /\ pc = [s \in Sessions |-> Idle]
  /\ last = NoStep
  /\ screen = [s \in Sessions |-> NoAnalysis]
  /\ statistics = [s \in Sessions |-> NoStatistics]
  /\ recalc = NoRecalc
  /\ history = NoHistory
  /\ layout = [s \in Sessions |-> NoLayout]

\* the reconciling functions over such a database, with scans being tracked
NextRecalc ==
  \/ \E s \in Sessions : trackDeepfakeScan(s)
  \/ \E u \in Users : recalculate_user_likes_select(u)
  \/ recalculate_user_likes
  \/ InitializeStatistics

SpecRecalc == InitDrift /\ [][NextRecalc]_vars

\* like toggles with recalculate_user_likes running beside them
NextRecalcLikes ==
  \/ NextToggles
  \/ \E u \in Users : recalculate_user_likes_select(u)
  \/ recalculate_user_likes

SpecRecalcLikes == Init /\ [][NextRecalcLikes]_vars

\* every handler together
Next ==
  \/ \E u \in Users : recalculate_user_likes_select(u)
  \/ recalculate_user_likes
  \/ InitializeStatistics
  \/ \E s \in Sessions :
    \/ fetchPosts(s)
    \/ handleCreatePostEmpty(s)
    \/ handleCreatePostFail(s)
    \/ handleCreatePost(s)
    \/ \E p \in 1..MaxPosts : handleLike(s, p)
    \/ \E p \in 1..MaxPosts : handleLikeFail(s, p)
    \/ \E p \in 1..MaxPosts, ok \in BOOLEAN : handleDeletePostComments(s, p, ok)
    \/ handleDeletePost(s)
    \/ handleDeletePostFail(s)
    \/ \E p \in 1..MaxPosts : handleAddComment(s, p)
    \/ \E p \in 1..MaxPosts : handleAddCommentFail(s, p)
    \/ \E c \in comments : handleDeleteComment(s, c)
    \/ \E c \in comments : handleDeleteCommentFail(s, c)
    \/ trackDeepfakeScan(s)
    \/ trackDeepfakeScanFail(s)
    \/ uploadProfileImage(s)
    \/ uploadProfileImageFail(s)
    \/ analyzeMediaNoMedia(s)
    \/ analyzeMedia(s)
    \/ \E email \in BOOLEAN : analyzeMediaDetected(s, email)
    \/ analyzeMediaDetectFail(s)
    \/ analyzeMediaTrack(s)
    \/ analyzeMediaTrackFail(s)
    \/ \E readOk \in BOOLEAN : getUserStatistics(s, readOk)
    \/ \E userEmail \in Users, count \in Limits, readOk \in BOOLEAN :
         getUserScanHistory(s, userEmail, count, readOk)
    \/ \E typed \in Drafts, selectedImage \in BOOLEAN :
         handleCreatePostEmptyText(s, typed, selectedImage)
    \/ \E p \in 0..MaxPosts, typed \in Drafts : handleAddCommentEmpty(s, p, typed)
    \/ \E signedIn \in BOOLEAN : authLoaded(s, signedIn)
    \/ signOut(s)
    \/ \E signedIn \in BOOLEAN : openProtected(s, signedIn)
    \/ ProtectedLayout(s)
    \/ useEffect(s)

Spec == Init /\ [][Next]_vars

\* ------------------------------------------------------------ properties
RowOf(prof, u) == IF u \in DOMAIN prof THEN <<prof[u]>> ELSE <<>>

PostsOf(u) == {p \in DOMAIN posts : posts[p].user_email = u}

ScansOf(u) == {i \in DOMAIN scans : scans[i].user_email = u}

PostsIn(ps, u) == {p \in DOMAIN ps : ps[p].user_email = u}

ScansIn(sc, u) == {i \in DOMAIN sc : sc[i].user_email = u}

LikersOf(row) == Range(row.liked_by)

Toggle(S, u) == IF u \in S THEN S \ {u} ELSE S \cup {u}

SameLikes(row, old) == row.likes = old.likes /\ row.liked_by = old.liked_by

\* C1: in every state, each user's posts_count equals the number of
\* community_posts rows that user authored
PostCountMatchesPosts ==
  \A u \in Users : postCount(profiles, u) = Cardinality(PostsOf(u))

\* a user has created two posts and deleted one of them
PostCountWitness ==
  /\ nextPost = 3
  /\ last.op = "handleDeletePost" /\ last.hit
  /\ \E u \in Users : Cardinality(PostsOf(u)) = 1 /\ postCount(profiles, u) = 1

\* C2: in every state, each user's total_likes_received equals the sum,
\* over the posts the user currently has, of the number of users in liked_by
TotalLikesMatchesLikedBy ==
  \A u \in Users :
    totalLikes(profiles, u) =
      SumOver(PostsOf(u), [p \in PostsOf(u) |-> Cardinality(LikersOf(posts[p]))])

\* C3: when two sessions of distinct users hold the same copy of a post and
\* toggle one after the other, the second commit leaves the post liked by
\* exactly the copy's users with both togglers flipped, and likes counts them
NoLostLikeUpdate ==
  [][\A t \in Sessions, p \in DOMAIN posts :
       ( /\ last.op = "handleLike" /\ last.hit /\ last.post = p
         /\ t # last.s /\ user[t] # user[last.s]
         /\ p \in DOMAIN view[last.s] /\ SameLikes(view[last.s][p], last.old)
         /\ p \in DOMAIN view[t] /\ SameLikes(view[t][p], last.old)
         /\ handleLike(t, p) )
       => LET both == Toggle(Toggle(Range(last.old.liked_by), user[last.s]), user[t])
          IN /\ LikersOf(posts'[p]) = both
             /\ posts'[p].likes = Cardinality(both)]_vars

\* C4: in every state, each user's deepfake_scans_count equals the number
\* of deepfake_scans rows of that user
ScanCountMatchesScans ==
  \A u \in Users : scanCount(profiles, u) = Cardinality(ScansOf(u))

\* a user whose profile row already existed has two scans recorded
ScanCountWitness ==
  /\ Len(scans) = 2
  /\ scans[1].user_email = scans[2].user_email
  /\ scanCount(profiles, scans[1].user_email) = 2
  /\ last.op = "trackDeepfakeScan"

\* C5: in every state, no liked_by array holds the same user twice
NoDuplicateLikes ==
  \A p \in DOMAIN posts : Cardinality(LikersOf(posts[p])) = Len(posts[p].liked_by)

\* a user signed in on two sessions has just toggled from a stale copy, and
\* the post is liked
StaleToggleWitness ==
  /\ user["s1"] = user["s2"]
  /\ last.op = "handleLike" /\ last.hit
  /\ last.post \in DOMAIN posts
  /\ ~SameLikes(view[last.s][last.post], last.old)
  /\ Len(posts[last.post].liked_by) >= 1

\* C6: a second toggle by the same session on the same post, right after
\* its first and from the same copy (current at the first toggle), leaves
\* liked_by, likes and the author's total as they were before the first
DoubleToggleRestores ==
  [][\A s \in Sessions, p \in DOMAIN posts :
       ( /\ last.op = "handleLike" /\ last.hit /\ last.s = s /\ last.post = p
         /\ SameLikes(view[s][p], last.old)
         /\ handleLike(s, p) )
       => /\ SameLikes(posts'[p], last.old)
          /\ totalLikes(profiles', posts[p].user_email) = last.old.total]_vars

\* C7: every like update that reaches a row changes the author's
\* total_likes_received, in that same step, by +1 or -1, the change in the
\* number of users in liked_by
LikeDeltaIsOne ==
  [][\A s \in Sessions, p \in DOMAIN posts :
       handleLike(s, p)
       => LET a == posts[p].user_email
              d == totalLikes(profiles', a) - totalLikes(profiles, a)
          IN /\ d \in {1, -1}
             /\ d = Cardinality(LikersOf(posts'[p])) - Cardinality(LikersOf(posts[p]))]_vars

\* C8: a post and its comments go in one step: no comment is left without
\* its post, and no deletePost has removed comments of a post still there
CascadeIsAtomic ==
  /\ \A c \in comments : c.post_id \in DOMAIN posts
  /\ \A s \in Sessions :
       pc[s].at = "deletePost" /\ pc[s].removed > 0 => pc[s].post \notin DOMAIN posts

\* C9: the step that deletes a post lowers its author's
\* total_likes_received by the post's likes and posts_count by one
DeleteRemovesLikes ==
  [][\A p \in DOMAIN posts :
       p \notin DOMAIN posts'
       => LET a == posts[p].user_email
          IN /\ totalLikes(profiles', a) =
                  totalLikes(profiles, a) - Cardinality(LikersOf(posts[p]))
             /\ postCount(profiles', a) = postCount(profiles, a) - 1]_vars

\* C10: a handler that has ended in a reported failure has removed no row:
\* no comment was deleted by a deletePost whose post delete failed
FailureChangesNothing == ~last.ok => last.removed = 0

\* C11: a toggle whose post is gone changes no table, and a deleted post
\* takes the effect of its toggles with it: once no post is left, no user
\* has likes received
DeleteLikeRace ==
  [][/\ \A s \in Sessions, p \in 1..MaxPosts :
          handleLike(s, p) /\ p \notin DOMAIN posts => UNCHANGED db
     /\ DOMAIN posts' = {} => \A u \in Users : totalLikes(profiles', u) = 0]_vars

\* C12: a toggle that has found no row ends in a reported error
LikeOfMissingPostFails ==
  last.op = "handleLike" /\ ~last.hit => ~last.ok

\* C13: whatever the insert of trackDeepfakeScan does, the analysis ends
\* with its result shown and without 'Analysis Failed', and a failed insert
\* adds no scan row and changes no profile row
TrackingIsBestEffort ==
  [][\A s \in Sessions :
       analyzeMediaTrack(s) \/ analyzeMediaTrackFail(s)
       => /\ screen'[s].result = "set"
          /\ ~screen'[s].failed
          /\ ~screen'[s].analyzing
          /\ analyzeMediaTrackFail(s) => scans' = scans /\ profiles' = profiles]_vars

\* an analysis whose tracking insert failed has ended, after an earlier scan
\* of the same user was counted
TrackingFailedWitness ==
  /\ last.op = "analyzeMedia" /\ ~last.ok
  /\ screen[last.s].result = "set" /\ ~screen[last.s].failed
  /\ scanCount(profiles, user[last.s]) = 1

\* C14: reading the statistics always returns three counters: the row's
\* when the read succeeds on an existing row, zeros when the user has no row
\* or the read fails
StatisticsNeverFail ==
  [][\A s \in Sessions, readOk \in BOOLEAN :
       getUserStatistics(s, readOk)
       => LET u == SessionUser(s)
          IN IF readOk /\ u \in DOMAIN profiles
             THEN /\ statistics'[s].deepfakeScans = scanCount(profiles, u)
                  /\ statistics'[s].postsCount = postCount(profiles, u)
                  /\ statistics'[s].totalLikes = totalLikes(profiles, u)
             ELSE statistics'[s] = [deepfakeScans |-> 0, postsCount |-> 0,
                                    totalLikes |-> 0]]_vars

\* a failed read has returned zeros for a user whose row holds counts
FailedReadWitness ==
  /\ last.op = "getUserStatistics" /\ ~last.ok
  /\ postCount(profiles, user[last.s]) = 1
  /\ scanCount(profiles, user[last.s]) = 1
  /\ statistics[last.s].postsCount = 0
  /\ \E t \in Sessions : statistics[t].postsCount = 1

\* C15: every committed scan or post creation adds one to its own counter
\* of its user, whether or not the row existed, and keeps every other
\* counter of every user
IncrementsRetained ==
  [][Len(scans') > Len(scans) \/ nextPost' > nextPost
     => \A u \in Users :
          /\ scanCount(profiles', u) = scanCount(profiles, u)
               + Cardinality(ScansIn(scans', u)) - Cardinality(ScansIn(scans, u))
          /\ postCount(profiles', u) = postCount(profiles, u)
               + Cardinality(PostsIn(posts', u)) - Cardinality(PostsIn(posts, u))
          /\ totalLikes(profiles', u) = totalLikes(profiles, u)]_vars

\* a user signed in on two sessions, with no row at first, has two scans and
\* two posts counted
TwoSessionsCountedWitness ==
  /\ user["s1"] = user["s2"]
  /\ scanCount(profiles, user["s1"]) = 2
  /\ postCount(profiles, user["s1"]) = 2

\* C16: a post or scan row and its increment appear in the same step: no
\* step inserts a row without raising its owner's counter, and none raises
\* a counter without inserting a row
RowAndCounterTogether ==
  [][\A u \in Users :
       /\ Cardinality(PostsIn(posts', u)) > Cardinality(PostsIn(posts, u))
            <=> postCount(profiles', u) > postCount(profiles, u)
       /\ Cardinality(ScansIn(scans', u)) > Cardinality(ScansIn(scans, u))
            <=> scanCount(profiles', u) > scanCount(profiles, u)]_vars

\* a scan of a user who has a post has just been committed and counted
ScanCommittedWitness ==
  /\ last.op = "trackDeepfakeScan"
  /\ Len(scans) = 1
  /\ scanCount(profiles, user[last.s]) = 1
  /\ postCount(profiles, user[last.s]) = 1

\* the three aggregates of user u over the tables ps and sc
LikesIn(ps, u) ==
  SumOver(PostsIn(ps, u), [p \in PostsIn(ps, u) |-> Cardinality(LikersOf(ps[p]))])

CountersMatch(prof, ps, sc, u) ==
  /\ scanCount(prof, u) = Cardinality(ScansIn(sc, u))
  /\ postCount(prof, u) = Cardinality(PostsIn(ps, u))
  /\ totalLikes(prof, u) = LikesIn(ps, u)

\* C17: a recalculate_user_likes call with no step between its SELECT and
\* its UPDATE leaves the three counters of its user equal to the user's
\* scans, posts and likes
DriftRepaired ==
  [][recalculate_user_likes /\ last.op = "recalculate_user_likes_select"
     => CountersMatch(profiles', posts', scans', recalc.user_email_param)]_vars

\* C18: a second recalculate_user_likes call for the same user, with no step
\* since the first completed, changes no profile row and returns what the
\* first returned
RecalculateIdempotent ==
  [][recalculate_user_likes /\ last.op = "recalculate_user_likes_select"
       /\ recalc.twice
     => profiles' = profiles /\ recalc'.returned = recalc.returned]_vars

\* the second of two calls in a row has completed for a user whose stored
\* total was wrong: the row holds the two likes of the user's post
RecalculatedTwiceWitness ==
  /\ recalc.at = "idle" /\ recalc.twice
  /\ last.op = "recalculate_user_likes"
  /\ recalc.returned = 2
  /\ recalc.user_email_param \in DOMAIN profiles
  /\ totalLikes(profiles, recalc.user_email_param) = 2

\* C19: after the DO block every user who has a post or a scan has the
\* three counters equal to the user's scans, posts and likes
AllUsersReconciled ==
  [][InitializeStatistics
     => \A u \in Users :
          PostsIn(posts, u) # {} \/ ScansIn(scans, u) # {}
          => CountersMatch(profiles', posts', scans', u)]_vars

\* C20: when a recalculate_user_likes call completes, whatever was
\* committed between its SELECT and its UPDATE, its user's
\* total_likes_received equals the likes of the user's posts
RecalculateLosesNoLike ==
  [][recalculate_user_likes
     => totalLikes(profiles', recalc.user_email_param)
          = LikesIn(posts', recalc.user_email_param)]_vars

\* C30: in every state, each post's likes equals the number of users in its
\* liked_by
LikesMatchLikedBy ==
  \A p \in DOMAIN posts : posts[p].likes = Cardinality(LikersOf(posts[p]))

\* a toggle of one user, computed from a copy read before another user's
\* like, has overwritten that like
OverwrittenLikeWitness ==
  /\ user["s1"] # user["s2"]
  /\ last.op = "handleLike" /\ last.hit
  /\ last.post \in DOMAIN posts
  /\ last.old.liked_by # <<>>
  /\ view[last.s][last.post].liked_by = <<>>
  /\ posts[last.post].liked_by = <<user[last.s]>>
  /\ user[last.s] \notin Range(last.old.liked_by)

\* C22: a comment disappears only in a handleDeleteComment of its author or
\* of the admin, or in the step that deletes its post
CommentsGoWithLeave ==
  [][\A c \in comments :
       c \notin comments'
       => \/ c.post_id \notin DOMAIN posts'
          \/ \E s \in Sessions :
               /\ handleDeleteComment(s, c)
               /\ c.user_email = SessionUser(s) \/ isAdmin(s)]_vars

\* C25: in every state, the three counters of every user are >= 0
CountersNonNegative ==
  \A u \in Users :
    /\ scanCount(profiles, u) >= 0
    /\ postCount(profiles, u) >= 0
    /\ totalLikes(profiles, u) >= 0

CommentsHavePosts ==
  /\ \A c \in comments : c.post_id \in DOMAIN posts
  /\ last.op = "handleAddComment" /\ last.post \notin DOMAIN posts => ~last.ok

\* a comment on a post deleted after the post was opened has been refused,
\* after an earlier comment on the post went with it
CommentRefusedWitness ==
  /\ last.op = "handleAddComment" /\ ~last.ok
  /\ last.post \notin DOMAIN posts
  /\ nextComment > 1
  /\ comments = {}

\* C24: no step removes a user_profiles row, and a row that appears is the
\* one its first event writes: posts_count 1 and the rest 0 after a first
\* post, deepfake_scans_count 1 and the rest 0 after a first scan, all 0
\* after a profile image upload
RowsAreKept ==
  [][\A u \in Users :
       /\ u \in DOMAIN profiles => u \in DOMAIN profiles'
       /\ u \notin DOMAIN profiles /\ u \in DOMAIN profiles' =>
            \/ /\ nextPost' > nextPost
               /\ profiles'[u] = [NewProfile EXCEPT !.posts_count = 1]
            \/ /\ Len(scans') > Len(scans)
               /\ profiles'[u] = [NewProfile EXCEPT !.deepfake_scans_count = 1]
            \/ /\ last'.op = "uploadProfileImage"
               /\ profiles'[u] = NewProfile]_vars

\* an author deleted their last post and still has a row, counting 0 posts
LastPostDeletedWitness ==
  /\ last.op = "handleDeletePost" /\ last.hit
  /\ PostsOf(user[last.s]) = {}
  /\ user[last.s] \in DOMAIN profiles
  /\ profiles[user[last.s]].posts_count = 0

\* C29: every step keeps the stored scans as they are, at most appending
\* one, and lowers no user's deepfake_scans_count
ScansAppendOnly ==
  [][/\ Len(scans') >= Len(scans)
     /\ SubSeq(scans', 1, Len(scans)) = scans
     /\ \A u \in Users : /\ scanCount(profiles', u) >= scanCount(profiles, u)
                         /\ ScansIn(scans, u) \subseteq ScansIn(scans', u)]_vars

\* a user with two scans uploaded a profile image and kept the count
ScansKeptWitness ==
  /\ last.op = "uploadProfileImage"
  /\ Cardinality(ScansOf(user[last.s])) >= 2
  /\ scanCount(profiles, user[last.s]) = Cardinality(ScansOf(user[last.s]))
  /\ postCount(profiles, user[last.s]) >= 1

\* C26: in every state every stored scan has a risk_score within 0..100
RiskScoreInRange == \A i \in DOMAIN scans : scans[i].risk_score \in 0..100

CountersScoped ==
  [][\A s \in Sessions :
       /\ handleCreatePost(s) \/ handleDeletePost(s) \/ trackDeepfakeScan(s) =>
            \A v \in Users \ {SessionUser(s)} : RowOf(profiles', v) = RowOf(profiles, v)
       /\ \A p \in DOMAIN posts :
            handleLike(s, p) =>
              \A v \in Users \ {posts[p].user_email} :
                RowOf(profiles', v) = RowOf(profiles, v)]_vars

\* a user liked another user's post: the author's total moved and the
\* liker's own row, with a post and a scan counted, stayed
LikeOfOthersPostWitness ==
  /\ last.op = "handleLike" /\ last.hit
  /\ last.post \in DOMAIN posts
  /\ posts[last.post].user_email # user[last.s]
  /\ totalLikes(profiles, posts[last.post].user_email) # last.old.total
  /\ scanCount(profiles, user[last.s]) >= 1
  /\ scanCount(profiles, posts[last.post].user_email) >= 1

\* C31: in every state reached by a handleDeletePost that ended in 'Post
\* deleted successfully', the post is no longer stored
DeletedWhenReported ==
  last.op = "handleDeletePost" /\ last.ok => last.post \notin DOMAIN posts

\* C32: whenever trackDeepfakeScan is about to be called the detection
\* result is already shown, and whenever analyzing is true it is false
\* again later
AnalyzingEnds ==
  /\ [](\A s \in Sessions : screen[s].at = "track" => screen[s].result = "set")
  /\ \A s \in Sessions : screen[s].analyzing ~> ~screen[s].analyzing

\* an analysis is waiting for its tracking insert, the result shown, while
\* the other session's analysis has ended in 'Analysis Failed'
TrackingPendingWitness ==
  /\ screen["s1"].at = "track" /\ screen["s1"].analyzing
  /\ screen["s1"].result = "set"
  /\ screen["s2"].failed /\ ~screen["s2"].analyzing

\* C33: an analysis without media, with a failed detection or without
\* user?.email ends without a scan row or a counter changed, and the scans
\* and counters change only by one row and one count of a session whose
\* detection has resolved, which ends its analysis
TrackedOncePerAnalysis ==
  [][\A s \in Sessions :
       /\ \/ analyzeMediaNoMedia(s)
          \/ analyzeMediaDetectFail(s)
          \/ analyzeMediaDetected(s, FALSE)
          => scans' = scans /\ profiles' = profiles /\ screen'[s].at = "idle"
       /\ scans' # scans \/ profiles' # profiles
          => \E t \in Sessions :
               /\ screen[t].at = "track" /\ screen'[t].at = "idle"
               /\ Len(scans') = Len(scans) + 1
               /\ SubSeq(scans', 1, Len(scans)) = scans
               /\ scans'[Len(scans')].user_email = SessionUser(t)
               /\ scanCount(profiles', SessionUser(t))
                    = scanCount(profiles, SessionUser(t)) + 1]_vars

\* an analysis without user?.email has ended with its result shown, after
\* an earlier analysis of the session was tracked
NoEmailWitness ==
  /\ last.op = "analyzeMediaDetected"
  /\ screen[last.s].result = "set" /\ ~screen[last.s].analyzing
  /\ Cardinality(ScansOf(user[last.s])) = 1
  /\ scanCount(profiles, user[last.s]) = 1

\* C34: an uploadProfileImage keeps the three counters of the session's user
\* when the row exists, creates the row with the three counters 0 when it
\* does not, and keeps every other row; and in every state, uploads
\* interleaved with posts and scans, each user's counters count the user's
\* scans and posts
UploadKeepsCounters ==
  /\ [][\A s \in Sessions :
          uploadProfileImage(s)
          => /\ SessionUser(s) \in DOMAIN profiles'
             /\ profiles'[SessionUser(s)] =
                  IF SessionUser(s) \in DOMAIN profiles
                  THEN profiles[SessionUser(s)] ELSE NewProfile
             /\ \A v \in Users \ {SessionUser(s)} :
                  RowOf(profiles', v) = RowOf(profiles, v)]_vars
  /\ [](\A u \in Users :
          /\ scanCount(profiles, u) = Cardinality(ScansOf(u))
          /\ postCount(profiles, u) = Cardinality(PostsOf(u)))

\* a user signed in on two sessions uploaded a profile image with a scan
\* and a post counted
UploadedWitness ==
  /\ last.op = "uploadProfileImage"
  /\ user["s1"] = user["s2"]
  /\ scanCount(profiles, user[last.s]) = 1
  /\ postCount(profiles, user[last.s]) = 1
  /\ DOMAIN profiles = {user[last.s]}

\* C35: in every state every stored post has text or an image and every
\* stored comment has text and a post, and an empty submission has left the
\* tables and the counters as they were
EmptyNotStored ==
  /\ [](/\ \A p \in DOMAIN posts : posts[p].content > 0 \/ posts[p].image_url
        /\ \A c \in comments : c.content > 0 /\ c.post_id # 0)
  /\ [][last'.op \in {"handleCreatePostEmpty", "handleAddCommentEmpty"}
        => UNCHANGED db]_vars

\* a comment of white space only was submitted and is not stored, on a post
\* of white space and an image that is
EmptyCommentWitness ==
  /\ last.op = "handleAddCommentEmpty"
  /\ last.post \in DOMAIN posts
  /\ posts[last.post].content = 0 /\ posts[last.post].image_url
  /\ comments = {} /\ nextComment = 1

\* C36: every scan row stored carries the email of the session that
\* inserted it and raises the deepfake_scans_count of no other user, and
\* every row getUserScanHistory has returned is a row of the session's user
OwnScansOnly ==
  /\ [][Len(scans') > Len(scans)
        => /\ scans'[Len(scans')].user_email = user[last'.s]
           /\ \A u \in Users \ {user[last'.s]} :
                scanCount(profiles', u) = scanCount(profiles, u)]_vars
  /\ [](\A k \in DOMAIN history.rows :
          history.rows[k].user_email = user[history.s])

\* a session asked for the scans of another user, who has one, and was
\* returned none
OthersHistoryWitness ==
  /\ last.op = "getUserScanHistory" /\ last.ok
  /\ history.userEmail # user[history.s]
  /\ ScansOf(history.userEmail) # {}
  /\ history.rows = <<>>

\* C37: getUserScanHistory(userEmail, limit) returns stored rows of
\* userEmail only, no more than limit, none before a row with a later
\* created_at; for the session's own email as many as are stored up to
\* limit, none left out being newer than one returned; the empty list when
\* the read fails; and it changes no table
ScanHistoryCorrect ==
  [][\A s \in Sessions, userEmail \in Users, count \in Limits, readOk \in BOOLEAN :
       getUserScanHistory(s, userEmail, count, readOk)
       => LET rows == history'.rows
          IN /\ Len(rows) <= count
             /\ \A k \in DOMAIN rows :
                  /\ rows[k].user_email = userEmail
                  /\ rows[k] \in Range(scans)
             /\ \A k, l \in DOMAIN rows :
                  k < l => rows[k].created_at >= rows[l].created_at
             /\ ~readOk => rows = <<>>
             /\ readOk /\ userEmail = SessionUser(s)
                => /\ Len(rows) = Min(count, Cardinality(ScansOf(userEmail)))
                   /\ \A i \in ScansOf(userEmail) :
                        \/ scans[i] \in Range(rows)
                        \/ \A k \in DOMAIN rows :
                             rows[k].created_at >= scans[i].created_at
             /\ UNCHANGED db]_vars

\* of a user's two scans the one with the later created_at, inserted first,
\* was returned under a limit of one
NewestFirstWitness ==
  /\ last.op = "getUserScanHistory" /\ last.ok
  /\ Cardinality(ScansOf(history.userEmail)) = 2
  /\ Len(scans) = 2
  /\ scans[1].created_at > scans[2].created_at
  /\ history.rows = <<scans[1]>>

\* C38: while the auth context is loading the Tabs are not rendered and no
\* redirect has been issued; a redirect is issued only with loading over, no
\* user and the route inside the (protected) group; and whenever loading is
\* over with no user and the route inside the group, a redirect is issued
\* later
GuardRedirects ==
  /\ [](\A s \in Sessions :
          layout[s].loading => layout[s].rendered # "tabs" /\ ~layout[s].redirected)
  /\ [][\A s \in Sessions :
          ~layout[s].redirected /\ layout'[s].redirected
          => ~layout[s].loading /\ ~layout[s].user /\ layout[s].inProtectedGroup]_vars
  /\ \A s \in Sessions :
       (~layout[s].loading /\ ~layout[s].user /\ layout[s].inProtectedGroup)
         ~> layout[s].redirected

\* one session has been redirected to /auth/login while the other, signed
\* in, shows the Tabs
RedirectedWitness ==
  /\ layout["s1"].redirected /\ ~layout["s1"].inProtectedGroup
  /\ ~layout["s1"].user
  /\ layout["s2"].user /\ layout["s2"].rendered = "tabs"

====
